---- MODULE Spec2Model ----
(***************************************************************************)
(* overload::delayed_init<T> (src/delayed_init.h) driven over the          *)
(* instrumented element type `helper` of the unit tests                    *)
(* (src/unnamed/part_000).  Every public operation of delayed_init is one  *)
(* action; the private members init_obj, init_me, assign and destroy are   *)
(* operators on a "machine" record that is threaded through the body of    *)
(* the operation exactly as the C++ statements run.                        *)
(***************************************************************************)
EXTENDS Integers, Sequences, FiniteSets, TLC

\* ---------------------------------------------------------------- bounds
NumHolders == 2          \* holder objects that may exist at the same time
MaxVal     == 1          \* helper::i_ ranges over 0..MaxVal
MaxCtor    == 3          \* placement-constructions performed in one run

Holders == 1..NumHolders
Val     == 0..MaxVal

\* the content of storage that holds no live object (indeterminate bytes),
\* and the target of a reference obtained from *get() when get() is null
Indet   == -1
\* get() == nullptr
nullptr == 0

VARIABLES
  hs,      \* hs[h]: the holder object in slot h (is_init_, obj_ and ghosts)
  nCtor,   \* ghost: placement-constructions into holder storage so far
  nDtor,   \* ghost: destructor calls on holder storage so far
  last,    \* the operation that has just returned or thrown
  T_traits \* which operations of the element type T are declared noexcept

vars == <<hs, nCtor, nDtor, last, T_traits>>

\* a slot in which no delayed_init object exists
NoHolder == [st |-> "none", is_init_ |-> FALSE, obj_ |-> Indet, live |-> 0]

\* ------------------------------------------------- the element type helper
\* helper reads i_ through a reference to storage: indeterminate storage
\* yields any value g
load(v, g) == IF v = Indet THEN g ELSE v

\* the member of helper an argument list selects for T(args...)
ctor_of(kind) ==
  CASE kind = "none" -> "default_constructor"
    [] kind = "int"  -> "constructor"
    [] kind = "copy" -> "copy_constructor"
    [] kind = "move" -> "move_constructor"

\* the value helper's constructor stores in i_
ctor_val(kind, v) == IF kind = "none" THEN 0 ELSE v

\* the member of helper an assignment from a (const) lvalue / an rvalue picks
assign_of(shape) ==
  IF shape = "move" THEN "move_assignment" ELSE "copy_assignment"

\* ------------------------------------------- private members of the holder
\* machine record: hs (holders), ledger (helper::call_stack, oldest first),
\* exc (exception in flight), ctors/dtors (placement-new / ~T() executed on
\* holder storage in this operation), deadDtor (~T() ran on dead storage),
\* readsDead (an operation of T was given storage without a live object as
\* the object to copy, move or swap from)
Machine(h0) ==
  [hs |-> h0, ledger |-> <<>>, exc |-> "none", ctors |-> 0, dtors |-> 0,
   deadDtor |-> FALSE, readsDead |-> FALSE]

\* the object an operation of T is asked to copy, move or swap from
T_source(m, ref) == [m EXCEPT !.readsDead = @ \/ ref = Indet]

\* the argument of T(args...) is an object of type T
FromT(kind) == kind \in {"copy", "move"}

\* init_obj with the flag raised before the constructor has run
init_obj_flag_first(m, h, kind, v, thr) ==
  IF thr
  THEN [m EXCEPT !.hs[h].is_init_ = TRUE, !.exc = "T_exception"]
  ELSE [m EXCEPT !.hs[h].obj_     = ctor_val(kind, v),
                 !.hs[h].live     = @ + 1,
                 !.hs[h].is_init_ = TRUE,
                 !.ledger         = Append(@, ctor_of(kind)),
                 !.ctors          = @ + 1]

\* new ((void*) &obj_) T(args...); is_init_ = true;
init_obj(m, h, kind, v, thr) ==
  LET m0 == IF FromT(kind) THEN T_source(m, v) ELSE m
  IN  IF thr
      THEN [m0 EXCEPT !.exc = "T_exception"]
      ELSE [m0 EXCEPT !.hs[h].obj_     = ctor_val(kind, v),
                      !.hs[h].live     = @ + 1,
                      !.hs[h].is_init_ = TRUE,
                      !.ledger         = Append(@, ctor_of(kind)),
                      !.ctors          = @ + 1]

\* init_me that copies the source's flag before it constructs
init_me_flag_first(m, h, src_is_init, shape, v, thr) ==
  LET m1 == [m EXCEPT !.hs[h].is_init_ = src_is_init]
  IN  IF src_is_init THEN init_obj(m1, h, shape, v, thr) ELSE m1

\* init_me that value-initialises the element when the source is empty
init_me_value_init(m, h, src_is_init, shape, v, thr) ==
  IF src_is_init
  THEN init_obj(m, h, shape, v, thr)
  ELSE init_obj(m, h, "none", 0, FALSE)

\* if (src_is_init) init_obj(std::forward<U>(src_obj));
init_me(m, h, src_is_init, shape, v, thr) ==
  IF src_is_init THEN init_obj(m, h, shape, v, thr) ELSE m

\* (&obj_)->~T();
T_dtor(m, h) ==
  [m EXCEPT !.hs[h].live = IF @ > 0 THEN @ - 1 ELSE 0,
            !.hs[h].obj_ = IF m.hs[h].live > 1 THEN @ ELSE Indet,
            !.ledger     = Append(@, "destructor"),
            !.dtors      = @ + 1,
            !.deadDtor   = @ \/ m.hs[h].live = 0]

\* destroy() that calls the destructor whatever the flag says
destroy_unchecked(m, h) ==
  [T_dtor(m, h) EXCEPT !.hs[h].is_init_ = FALSE]

\* if (is_init_) (&obj_)->~T(); is_init_ = false;
destroy(m, h) ==
  LET m1 == IF m.hs[h].is_init_ THEN T_dtor(m, h) ELSE m
  IN  [m1 EXCEPT !.hs[h].is_init_ = FALSE]

\* obj_ = std::forward<U>(src_obj);
T_assign(m, h, shape, v, thr) ==
  LET m0 == T_source(m, v)
  IN  IF thr
      THEN [m0 EXCEPT !.exc = "T_exception"]
      ELSE [m0 EXCEPT !.hs[h].obj_ = v,
                      !.ledger     = Append(@, assign_of(shape))]

\* assign() that leaves an initialised target alone when the source is empty
assign_no_destroy(m, h, src_is_init, shape, v, thr) ==
  IF ~m.hs[h].is_init_
  THEN init_me(m, h, src_is_init, shape, v, thr)
  ELSE IF src_is_init
       THEN T_assign(m, h, shape, v, thr)
       ELSE m

\* assign() that gives up the target's value when T's assignment throws
assign_reset_on_throw(m, h, src_is_init, shape, v, thr) ==
  IF ~m.hs[h].is_init_
  THEN init_me(m, h, src_is_init, shape, v, thr)
  ELSE IF src_is_init
       THEN LET m1 == T_assign(m, h, shape, v, thr)
            IN  IF m1.exc = "none" THEN m1 ELSE destroy(m1, h)
       ELSE destroy(m, h)

\* assign() that replaces an initialised target by destroy-then-construct
assign_reconstruct(m, h, src_is_init, shape, v, thr) ==
  IF ~m.hs[h].is_init_
  THEN init_me(m, h, src_is_init, shape, v, thr)
  ELSE init_me(destroy(m, h), h, src_is_init, shape, v, thr)

\* if (!is_init_) init_me(...); else if (src_is_init) obj_ = ...; else destroy();
assign(m, h, src_is_init, shape, v, thr) ==
  IF ~m.hs[h].is_init_
  THEN init_me(m, h, src_is_init, shape, v, thr)
  ELSE IF src_is_init
       THEN T_assign(m, h, shape, v, thr)
       ELSE destroy(m, h)

\* *src.get(): the source's obj_ if it is initialised, else a null reference
src_ref(s) == IF s.is_init_ THEN s.obj_ ELSE Indet

\* helper's free swap(h1, h2), which calls h1.swap(h2): std::swap(i_, other.i_)
T_swap(m, a, b, thr) ==
  LET m0 == T_source(T_source(m, m.hs[a].obj_), m.hs[b].obj_)
  IN  IF thr
      THEN [m0 EXCEPT !.exc = "T_exception"]
      ELSE [m0 EXCEPT !.hs[a].obj_ = m.hs[b].obj_,
                      !.hs[b].obj_ = m.hs[a].obj_,
                      !.ledger     = @ \o <<"swap_non_member", "swap_member">>]

\* ------------------------------------------ exception specifications
\* what T declares noexcept: its copy constructor, its move constructor, the
\* swap(T&, T&) an unqualified call finds, and its member T::swap(T&)
T_nothrow ==
  [copy_ctor : BOOLEAN, move_ctor : BOOLEAN, swap : BOOLEAN,
   member_swap : BOOLEAN]

\* a T that declares nothing noexcept
T_throwing ==
  [copy_ctor |-> FALSE, move_ctor |-> FALSE, swap |-> FALSE,
   member_swap |-> FALSE]

\* traits::is_nothrow_swappable<T>: noexcept(swap(declval<T&>(), declval<T&>()))
is_nothrow_swappable(t) == t.swap

\* the noexcept-specification of delayed_init<T>::swap
swap_noexcept(t) ==
  t.copy_ctor /\ t.move_ctor /\ is_nothrow_swappable(t)

\* the noexcept-specification of overload::swap:
\* noexcept(std::declval<T&>().swap(std::declval<T&>()))
overload_swap_noexcept(t) == t.member_swap

\* an exception that reaches the boundary of a function declared noexcept
\* ends the program in std::terminate
noexcept_call(declared, m) ==
  IF declared /\ m.exc # "none" THEN [m EXCEPT !.exc = "terminate"] ELSE m

\* the operation of T that a.swap(b) runs may throw: swap(obj_, src.obj_)
\* when both are initialised, T(T&&) when exactly one is, none otherwise
swap_may_throw(t, h0, a, b) ==
  IF h0[a].is_init_ /\ h0[b].is_init_ THEN ~t.swap
  ELSE IF h0[a].is_init_ \/ h0[b].is_init_ THEN ~t.move_ctor
  ELSE FALSE

\* -------------------------------------------- public members of the holder
\* the object before any constructor body runs: bool is_init_ = false; and a
\* union member obj_ that nothing initialises
Fresh == [st |-> "alive", is_init_ |-> FALSE, obj_ |-> Indet, live |-> 0]

\* a default constructor that value-initialises the element
ctor_default_eager(m, h) ==
  init_obj([m EXCEPT !.hs[h] = Fresh], h, "none", 0, FALSE)

\* constexpr delayed_init() noexcept {}
ctor_default(m, h) == [m EXCEPT !.hs[h] = Fresh]

\* a constructor from a holder that forgets the std::move
ctor_holder_always_copy(m, h, s, shape, thr) ==
  init_me([m EXCEPT !.hs[h] = Fresh], h, m.hs[s].is_init_, "copy",
          src_ref(m.hs[s]), thr)

\* delayed_init(const delayed_init<U>&) / delayed_init(delayed_init<U>&&):
\* init_me(static_cast<bool>(src), *src.get()) (std::move'd for an rvalue)
ctor_holder(m, h, s, shape, thr) ==
  init_me([m EXCEPT !.hs[h] = Fresh], h, m.hs[s].is_init_, shape,
          src_ref(m.hs[s]), thr)

\* a constructor from a value that default-constructs and then assigns
ctor_value_default_then_assign(m, h, kind, v, thr) ==
  T_assign(init_obj([m EXCEPT !.hs[h] = Fresh], h, "none", 0, FALSE),
           h, kind, v, thr)

\* explicit delayed_init(U&& obj): init_obj(std::forward<U>(obj));
ctor_value(m, h, kind, v, thr) ==
  init_obj([m EXCEPT !.hs[h] = Fresh], h, kind, v, thr)

\* a destructor that forgets the held value
dtor_trivial(m, h) == m

\* ~delayed_init() noexcept { destroy(); }
dtor(m, h) == destroy(m, h)

\* an assignment from a holder that destroys the target's value first and
\* then constructs the new one from the source
operator_assign_destroy_first(m, h, s, shape, thr) ==
  LET m1 == destroy(m, h)
  IN  init_me(m1, h, m.hs[s].is_init_, shape, src_ref(m1.hs[s]), thr)

\* an assignment from a holder that empties the source it has moved from
operator_assign_move_empties(m, h, s, shape, thr) ==
  LET m1 == assign(m, h, m.hs[s].is_init_, shape, src_ref(m.hs[s]), thr)
  IN  IF shape = "move" /\ m1.exc = "none" THEN destroy(m1, s) ELSE m1

\* operator=(const delayed_init<U>&) / operator=(delayed_init<U>&&):
\* assign(static_cast<bool>(src), *src.get()) (std::move'd for an rvalue)
operator_assign(m, h, s, shape, thr) ==
  assign(m, h, m.hs[s].is_init_, shape, src_ref(m.hs[s]), thr)

\* operator=(U&&) that passes the target's own flag as the source's flag
operator_assign_value_own_flag(m, h, shape, v, thr, g) ==
  assign(m, h, m.hs[h].is_init_, shape, load(m.hs[h].obj_, g), thr)

\* operator=(U&& obj): assign(true, std::forward<U>(obj_));
\* the forwarded object is the member obj_, the parameter obj (v) is not
\* used; T reads obj_, which is indeterminate when the holder is empty
operator_assign_value(m, h, shape, v, thr, g) ==
  assign(T_source(m, m.hs[h].obj_), h, TRUE, shape,
         load(m.hs[h].obj_, g), thr)

\* operator* that returns obj_ without looking at the flag
operator_star_unchecked(m, h) ==
  [exc |-> "none", ret |-> m.hs[h].obj_]

\* T& operator*(): if (is_init_) return obj_; throw std::logic_error(...)
operator_star(m, h) ==
  IF m.hs[h].is_init_
  THEN [exc |-> "none", ret |-> m.hs[h].obj_]
  ELSE [exc |-> "logic_error", ret |-> Indet]

\* const T& operator*() const: return *const_cast<delayed_init*>(this);
\* the operand of the unary * is the pointer `this`, so the expression is the
\* holder itself, not a call of the non-const operator*: is_init_ is never
\* tested and nothing is thrown.  The return statement has to convert the
\* holder to const T&: for helper (and for every T that has no implicit
\* constructor from delayed_init<T>) the member is ill-formed as soon as it
\* is used; where such a constructor exists the result is a reference to a
\* temporary T, built from the holder and destroyed on return.
operator_star_const(m, h) ==
  [exc |-> "none", ret |-> Indet, ledger |-> <<"constructor", "destructor">>]

\* a getter that hands out the address of the storage unconditionally
get_unchecked(m, h) == h

\* T* get() noexcept: return is_init_ ? &obj_ : nullptr;  (&hs[h].obj_ is h)
get(m, h) == IF m.hs[h].is_init_ THEN h ELSE nullptr

\* operator-> that returns &obj_ instead of get()
operator_arrow_unchecked(m, h) == h

\* T* operator->() noexcept: return get();
operator_arrow(m, h) == get(m, h)

\* explicit operator bool() const noexcept: return is_init_;
operator_bool(m, h) == m.hs[h].is_init_

\* init() that replaces the value of a holder that is already initialised
init_reinit(m, h, kind, v, thr) ==
  init_obj(destroy(m, h), h, kind, v, thr)

\* init() without the guard against a second initialisation
init_unguarded(m, h, kind, v, thr) == init_obj(m, h, kind, v, thr)

\* init(Args&&...): if (is_init_) throw std::logic_error(...); init_obj(args...)
init(m, h, kind, v, thr) ==
  IF m.hs[h].is_init_
  THEN [m EXCEPT !.exc = "logic_error"]
  ELSE init_obj(m, h, kind, v, thr)

\* swap() that destroys the full side before it has been moved from
swap_destroy_first(m, a, b, thr) ==
  IF m.hs[a].is_init_
  THEN IF m.hs[b].is_init_
       THEN T_swap(m, a, b, thr)
       ELSE LET m1 == destroy(m, a)
            IN  init_obj(m1, b, "move", m1.hs[a].obj_, thr)
  ELSE IF m.hs[b].is_init_
       THEN LET m1 == destroy(m, b)
            IN  init_obj(m1, a, "move", m1.hs[b].obj_, thr)
       ELSE m

\* swap() that exchanges two live values through a holder-level temporary:
\* destroy and re-construct both sides instead of calling swap(T&, T&)
swap_by_reconstruction(m, a, b, thr) ==
  IF m.hs[a].is_init_
  THEN IF m.hs[b].is_init_
       THEN LET va == m.hs[a].obj_
                vb == m.hs[b].obj_
                m1 == destroy(destroy(m, a), b)
                m2 == init_obj(m1, a, "move", vb, thr)
            IN  IF m2.exc = "none"
                THEN init_obj(m2, b, "move", va, thr) ELSE m2
       ELSE LET m1 == init_obj(m, b, "move", m.hs[a].obj_, thr)
            IN  IF m1.exc = "none" THEN destroy(m1, a) ELSE m1
  ELSE IF m.hs[b].is_init_
       THEN LET m1 == init_obj(m, a, "move", m.hs[b].obj_, thr)
            IN  IF m1.exc = "none" THEN destroy(m1, b) ELSE m1
       ELSE m

\* swap() that destroys the moved-from side even when the move has thrown
swap_destroy_always(m, a, b, thr) ==
  IF m.hs[a].is_init_
  THEN IF m.hs[b].is_init_
       THEN T_swap(m, a, b, thr)
       ELSE destroy(init_obj(m, b, "move", m.hs[a].obj_, thr), a)
  ELSE IF m.hs[b].is_init_
       THEN destroy(init_obj(m, a, "move", m.hs[b].obj_, thr), b)
       ELSE m

\* swap() without the branch for an empty *this and an initialised src
swap_one_way(m, a, b, thr) ==
  IF m.hs[a].is_init_
  THEN IF m.hs[b].is_init_
       THEN T_swap(m, a, b, thr)
       ELSE LET m1 == init_obj(m, b, "move", m.hs[a].obj_, thr)
            IN  IF m1.exc = "none" THEN destroy(m1, a) ELSE m1
  ELSE m

\* swap() that leaves the moved-from side initialised
swap_no_destroy(m, a, b, thr) ==
  IF m.hs[a].is_init_
  THEN IF m.hs[b].is_init_
       THEN T_swap(m, a, b, thr)
       ELSE init_obj(m, b, "move", m.hs[a].obj_, thr)
  ELSE IF m.hs[b].is_init_
       THEN init_obj(m, a, "move", m.hs[b].obj_, thr)
       ELSE m

\* void swap(delayed_init& src), called as a.swap(b)
swap(m, a, b, thr) ==
  IF m.hs[a].is_init_
  THEN IF m.hs[b].is_init_
       THEN T_swap(m, a, b, thr)
       ELSE LET m1 == init_obj(m, b, "move", m.hs[a].obj_, thr)
            IN  IF m1.exc = "none" THEN destroy(m1, a) ELSE m1
  ELSE IF m.hs[b].is_init_
       THEN LET m1 == init_obj(m, a, "move", m.hs[b].obj_, thr)
            IN  IF m1.exc = "none" THEN destroy(m1, b) ELSE m1
       ELSE m

\* a free swap that swaps the two values and ignores empty holders
overload_swap_values_only(m, d1, d2, thr) ==
  IF m.hs[d1].is_init_ /\ m.hs[d2].is_init_
  THEN T_swap(m, d1, d2, thr) ELSE m

\* template <typename T> void swap(delayed_init<T>& d1, delayed_init<T>& d2)
overload_swap(m, d1, d2, thr) == swap(m, d1, d2, thr)

\* ------------------------------------------------------------ the actions
Shapes   == {"copy", "move"}               \* (const) lvalue / rvalue source
ArgKinds == {"none", "int", "copy", "move"}  \* argument lists of init()
CtorKinds == {"int", "copy", "move"}       \* arguments of delayed_init(U&&)

Alive(h) == hs[h].st = "alive"

\* std::terminate has ended the program
Terminated == last.outcome = "terminate"

\* the operation returns or throws: publish its effects (a run performs at
\* most MaxCtor placement-constructions)
Commit(op, a, b, kind, v, m, ret) ==
  /\ ~Terminated
  /\ nCtor + m.ctors <= MaxCtor
  /\ hs'    = m.hs
  /\ nCtor' = nCtor + m.ctors
  /\ nDtor' = nDtor + m.dtors
  /\ T_traits' = T_traits
  /\ last'  = [op |-> op, a |-> a, b |-> b, kind |-> kind, v |-> v,
               outcome |-> m.exc, ledger |-> m.ledger, ctors |-> m.ctors,
               dtors |-> m.dtors, deadDtor |-> m.deadDtor,
               readsDead |-> m.readsDead, pre |-> hs, ret |-> ret]

\* a constructor that throws leaves no holder object behind
Built(m, h) == IF m.exc = "none" THEN m ELSE [m EXCEPT !.hs[h] = NoHolder]

DefaultConstruct(h) ==
  /\ ~Alive(h)
  /\ Commit("ctor_default", h, 0, "none", Indet,
            ctor_default(Machine(hs), h), Indet)

\* (an operation of T that is not run does not throw: thr is an input only
\* on the paths that reach T)
ConstructFromHolder(h, s, shape, thr) ==
  /\ ~Alive(h) /\ Alive(s) /\ h # s
  /\ thr => hs[s].is_init_
  /\ Commit("ctor_holder", h, s, shape, Indet,
            Built(ctor_holder(Machine(hs), h, s, shape, thr), h), Indet)

ConstructFromValue(h, kind, v, thr) ==
  /\ ~Alive(h)
  /\ Commit("ctor_value", h, 0, kind, v,
            Built(ctor_value(Machine(hs), h, kind, v, thr), h), Indet)

Destruct(h) ==
  /\ Alive(h)
  /\ Commit("dtor", h, 0, "none", Indet,
            [dtor(Machine(hs), h) EXCEPT !.hs[h] = NoHolder], Indet)

AssignHolder(h, s, shape, thr) ==
  /\ Alive(h) /\ Alive(s)
  /\ thr => hs[s].is_init_
  /\ Commit("assign_holder", h, s, shape, Indet,
            operator_assign(Machine(hs), h, s, shape, thr), Indet)

\* (g is what T finds in obj_ when it holds no live object: an input only
\* when the holder is empty)
AssignValue(h, shape, v, thr, g) ==
  /\ Alive(h)
  /\ hs[h].is_init_ => g = 0
  /\ Commit("assign_value", h, 0, shape, v,
            operator_assign_value(Machine(hs), h, shape, v, thr, g), Indet)

\* operator* that returns the value by copy: T operator*()
Dereference_by_value(h) ==
  /\ Alive(h)
  /\ LET r == operator_star(Machine(hs), h)
     IN  Commit("deref", h, 0, "none", Indet,
                [Machine(hs) EXCEPT
                   !.exc = r.exc,
                   !.ledger = IF r.exc = "none"
                              THEN <<"copy_constructor">> ELSE <<>>],
                r.ret)

Dereference(h) ==
  /\ Alive(h)
  /\ LET r == operator_star(Machine(hs), h)
     IN  Commit("deref", h, 0, "none", Indet,
                [Machine(hs) EXCEPT !.exc = r.exc], r.ret)

DereferenceConst(h) ==
  /\ Alive(h)
  /\ LET r == operator_star_const(Machine(hs), h)
     IN  Commit("deref_const", h, 0, "none", Indet,
                [Machine(hs) EXCEPT !.exc = r.exc, !.ledger = r.ledger],
                r.ret)

Get(h) ==
  /\ Alive(h)
  /\ Commit("get", h, 0, "none", Indet, Machine(hs), get(Machine(hs), h))

Arrow(h) ==
  /\ Alive(h)
  /\ Commit("arrow", h, 0, "none", Indet, Machine(hs),
            operator_arrow(Machine(hs), h))

BoolTest(h) ==
  /\ Alive(h)
  /\ Commit("bool", h, 0, "none", Indet, Machine(hs),
            operator_bool(Machine(hs), h))

CallInit(h, kind, v, thr) ==
  /\ Alive(h)
  /\ thr => ~hs[h].is_init_
  /\ Commit("init", h, 0, kind, v,
            init(Machine(hs), h, kind, v, thr), Indet)

SwapMember(a, b, thr) ==
  /\ Alive(a) /\ Alive(b)
  /\ thr => swap_may_throw(T_traits, hs, a, b)
  /\ Commit("swap", a, b, "move", Indet,
            noexcept_call(swap_noexcept(T_traits),
                          swap(Machine(hs), a, b, thr)), Indet)

SwapFree(a, b, thr) ==
  /\ Alive(a) /\ Alive(b)
  /\ thr => swap_may_throw(T_traits, hs, a, b)
  /\ Commit("overload_swap", a, b, "move", Indet,
            noexcept_call(overload_swap_noexcept(T_traits),
              noexcept_call(swap_noexcept(T_traits),
                            overload_swap(Machine(hs), a, b, thr))), Indet)

Init ==
  /\ hs    = [h \in Holders |-> NoHolder]
  /\ nCtor = 0
  /\ nDtor = 0
  /\ last  = [op |-> "start", a |-> 0, b |-> 0, kind |-> "none", v |-> Indet,
              outcome |-> "none", ledger |-> <<>>, ctors |-> 0, dtors |-> 0,
              deadDtor |-> FALSE, readsDead |-> FALSE,
              pre |-> [h \in Holders |-> NoHolder], ret |-> Indet]
  /\ T_traits = T_throwing

Next ==
  \/ \E h \in Holders : DefaultConstruct(h)
  \/ \E h \in Holders, s \in Holders, shape \in Shapes, thr \in BOOLEAN :
        ConstructFromHolder(h, s, shape, thr)
  \/ \E h \in Holders, kind \in CtorKinds, v \in Val, thr \in BOOLEAN :
        ConstructFromValue(h, kind, v, thr)
  \/ \E h \in Holders : Destruct(h)
  \/ \E h \in Holders, s \in Holders, shape \in Shapes, thr \in BOOLEAN :
        AssignHolder(h, s, shape, thr)
  \/ \E h \in Holders, shape \in Shapes, v \in Val, thr \in BOOLEAN,
        g \in Val : AssignValue(h, shape, v, thr, g)
  \/ \E h \in Holders : Dereference(h)
  \/ \E h \in Holders : DereferenceConst(h)
  \/ \E h \in Holders : Get(h)
  \/ \E h \in Holders : Arrow(h)
  \/ \E h \in Holders : BoolTest(h)
  \/ \E h \in Holders, kind \in ArgKinds, v \in Val, thr \in BOOLEAN :
        CallInit(h, kind, v, thr)
  \/ \E a \in Holders, b \in Holders, thr \in BOOLEAN : SwapMember(a, b, thr)
  \/ \E a \in Holders, b \in Holders, thr \in BOOLEAN : SwapFree(a, b, thr)

Spec == Init /\ [][Next]_vars

\* ------------------------------------- the swaps over every element type
\* the same holders instantiated over any T: T's noexcept declarations are
\* drawn from T_nothrow, and an operation T declares noexcept does not throw
TraitsInit ==
  /\ hs    = [h \in Holders |-> NoHolder]
  /\ nCtor = 0
  /\ nDtor = 0
  /\ last  = [op |-> "start", a |-> 0, b |-> 0, kind |-> "none", v |-> Indet,
              outcome |-> "none", ledger |-> <<>>, ctors |-> 0, dtors |-> 0,
              deadDtor |-> FALSE, readsDead |-> FALSE,
              pre |-> [h \in Holders |-> NoHolder], ret |-> Indet]
  /\ T_traits \in T_nothrow

TraitsNext ==
  \/ \E h \in Holders : DefaultConstruct(h)
  \/ \E h \in Holders, v \in Val : ConstructFromValue(h, "int", v, FALSE)
  \/ \E a \in Holders, b \in Holders, thr \in BOOLEAN : SwapMember(a, b, thr)
  \/ \E a \in Holders, b \in Holders, thr \in BOOLEAN : SwapFree(a, b, thr)

TraitsSpec == TraitsInit /\ [][TraitsNext]_vars

\* =================================================================== claims
Returned    == last.outcome = "none"
IsSwap      == last.op \in {"swap", "overload_swap"}
AllGone     == \A h \in Holders : ~Alive(h)
WasFull(h)  == last.pre[h].is_init_
IsFull(h)   == hs[h].is_init_

\* C1: at every operation boundary, normal return or exception alike, and
\* for every holder, is_init_ is true iff the storage holds exactly one live
\* T; a holder never holds two live objects.
C1_FlagMatchesStorage ==
  \A h \in Holders :
    /\ hs[h].live <= 1
    /\ hs[h].is_init_ = (hs[h].live = 1)

\* C1 witness: an operation has just propagated T's exception while one
\* holder is full and another one is empty.
C1_Witness ==
  /\ last.outcome = "T_exception"
  /\ \E h \in Holders : Alive(h) /\ IsFull(h) /\ hs[h].live = 1
  /\ \E h \in Holders : Alive(h) /\ ~IsFull(h) /\ hs[h].live = 0

\* C2: every T a holder placement-constructs is destroyed by a holder
\* exactly once: no destructor runs on storage without a live object, and
\* once every holder is destroyed the constructions equal the destructions.
C2_DestroyedExactlyOnce ==
  /\ ~last.deadDtor
  /\ nDtor <= nCtor
  /\ AllGone => nCtor = nDtor

\* C2 witness: the last holder has just been destroyed with its value, after
\* at least two constructions.
C2_Witness ==
  /\ AllGone /\ last.op = "dtor" /\ last.dtors = 1
  /\ nCtor >= 2 /\ nDtor = nCtor

\* C3 (as claimed): round trip: when an init, an assignment or a swap has
\* returned and left the holder full, the holder's value is the last value
\* assigned to it: the argument of init or of the raw-value assignment, or
\* the value the source holder had when it was assigned or swapped in.
C3_RoundTrip ==
  /\ (last.op = "init" /\ Returned /\ last.kind # "none")
        => (IsFull(last.a) /\ hs[last.a].obj_ = last.v)
  /\ (last.op = "assign_value" /\ Returned)
        => (IsFull(last.a) /\ hs[last.a].obj_ = last.v)
  /\ (last.op = "assign_holder" /\ Returned /\ IsFull(last.a))
        => hs[last.a].obj_ = last.pre[last.b].obj_
  /\ (IsSwap /\ Returned /\ IsFull(last.a))
        => hs[last.a].obj_ = last.pre[last.b].obj_
  /\ (IsSwap /\ Returned /\ IsFull(last.b))
        => hs[last.b].obj_ = last.pre[last.a].obj_

C5_OneShot ==
  last.op = "init" =>
    IF WasFull(last.a)
    THEN /\ last.outcome = "logic_error"
         /\ last.ledger = <<>> /\ last.ctors = 0 /\ last.dtors = 0
         /\ hs = last.pre
    ELSE /\ last.outcome \in {"none", "T_exception"}
         /\ Returned =>
              /\ IsFull(last.a)
              /\ last.ctors = 1 /\ last.dtors = 0
              /\ last.ledger =
                   << CASE last.kind = "none" -> "default_constructor"
                        [] last.kind = "int"  -> "constructor"
                        [] last.kind = "copy" -> "copy_constructor"
                        [] last.kind = "move" -> "move_constructor" >>
              /\ hs[last.a].obj_ = IF last.kind = "none" THEN 0 ELSE last.v

\* C5 witness: init(1) has just been refused on a holder that an earlier
\* init had filled.
C5_Witness ==
  /\ last.op = "init" /\ last.kind = "int" /\ last.outcome = "logic_error"
  /\ WasFull(last.a) /\ IsFull(last.a)

\* C5 second case: init(1) has just filled an empty holder.
C5_WitnessEmpty ==
  /\ last.op = "init" /\ last.kind = "int" /\ Returned
  /\ ~WasFull(last.a) /\ IsFull(last.a) /\ hs[last.a].obj_ = 1

\* C6: assignment post-state: after `this = source` (copy or move) returns,
\* this has a value iff the source had one at the moment of the call.
C6_AssignPostState ==
  (last.op = "assign_holder" /\ Returned)
     => IsFull(last.a) = WasFull(last.b)

\* C6 witness: a full holder has just been move-assigned from an empty one.
C6_Witness ==
  /\ last.op = "assign_holder" /\ Returned /\ last.kind = "move"
  /\ last.a # last.b
  /\ WasFull(last.a) /\ ~WasFull(last.b) /\ ~IsFull(last.a)

\* C7: element operations of an assignment from a holder that returns:
\* empty <- empty: none; empty <- full: exactly one construction (move for a
\* movable source, copy otherwise); full <- empty: exactly one destruction;
\* full <- full: exactly one in-place assignment (move or copy per call
\* shape), no construction and no destruction.
C7_AssignLedger ==
  (last.op = "assign_holder" /\ Returned) =>
    LET mv == last.kind = "move"
    IN  /\ (~WasFull(last.a) /\ ~WasFull(last.b))
             => (last.ledger = <<>> /\ last.ctors = 0 /\ last.dtors = 0)
        /\ (~WasFull(last.a) /\ WasFull(last.b))
             => /\ last.ledger = << IF mv THEN "move_constructor"
                                          ELSE "copy_constructor" >>
                /\ last.ctors = 1 /\ last.dtors = 0
        /\ (WasFull(last.a) /\ ~WasFull(last.b))
             => /\ last.ledger = <<"destructor">>
                /\ last.ctors = 0 /\ last.dtors = 1
        /\ (WasFull(last.a) /\ WasFull(last.b))
             => /\ last.ledger = << IF mv THEN "move_assignment"
                                          ELSE "copy_assignment" >>
                /\ last.ctors = 0 /\ last.dtors = 0

\* C7 witness: a full holder has just been move-assigned from another full
\* holder that holds a different value.
C7_Witness ==
  /\ last.op = "assign_holder" /\ Returned /\ last.kind = "move"
  /\ last.a # last.b /\ WasFull(last.a) /\ WasFull(last.b)
  /\ last.pre[last.a].obj_ # last.pre[last.b].obj_
  /\ last.ledger = <<"move_assignment">>

\* C8: a raw-value assignment that returns leaves the holder full: one
\* element construction if it was empty, one in-place element assignment
\* (no construction, no destruction) if it was full, and the boolean test is
\* true afterwards.
C8_AssignValueFull ==
  (last.op = "assign_value" /\ Returned) =>
    LET mv == last.kind = "move"
    IN  /\ operator_bool(Machine(hs), last.a)
        /\ hs[last.a].live = 1
        /\ IF WasFull(last.a)
           THEN /\ last.ledger = << IF mv THEN "move_assignment"
                                          ELSE "copy_assignment" >>
                /\ last.ctors = 0 /\ last.dtors = 0
           ELSE /\ last.ledger = << IF mv THEN "move_constructor"
                                          ELSE "copy_constructor" >>
                /\ last.ctors = 1 /\ last.dtors = 0

\* C8 witness: a raw value has just been assigned to an empty holder.
C8_Witness ==
  /\ last.op = "assign_value" /\ Returned
  /\ ~WasFull(last.a) /\ IsFull(last.a) /\ last.ctors = 1

\* C8 second case: a raw value has just been assigned to a full holder.
C8_WitnessFull ==
  /\ last.op = "assign_value" /\ Returned
  /\ WasFull(last.a) /\ IsFull(last.a) /\ last.ledger = <<"copy_assignment">>

\* C9: swap of a full holder A (value v) with an empty holder B, in either
\* argument order: A ends empty, B ends full with value v, through exactly
\* one move-construction into B followed by exactly one destruction of A's
\* old value, and no element swap.
C9_SwapFullEmpty ==
  (IsSwap /\ Returned /\ WasFull(last.a) # WasFull(last.b)) =>
    LET A == IF WasFull(last.a) THEN last.a ELSE last.b
        B == IF WasFull(last.a) THEN last.b ELSE last.a
    IN  /\ ~IsFull(A) /\ hs[A].live = 0
        /\ IsFull(B) /\ hs[B].live = 1
        /\ hs[B].obj_ = last.pre[A].obj_
        /\ last.ledger = <<"move_constructor", "destructor">>
        /\ last.ctors = 1 /\ last.dtors = 1 /\ ~last.deadDtor

\* C9 witness: full.swap(empty) has just returned with value 1 moved over.
C9_Witness ==
  /\ last.op = "swap" /\ Returned
  /\ WasFull(last.a) /\ ~WasFull(last.b)
  /\ last.pre[last.a].obj_ = 1 /\ hs[last.b].obj_ = 1 /\ ~IsFull(last.a)

\* C9 other argument order: empty.swap(full) has just returned.
C9_WitnessReversed ==
  /\ last.op = "swap" /\ Returned
  /\ ~WasFull(last.a) /\ WasFull(last.b)
  /\ IsFull(last.a) /\ ~IsFull(last.b)

\* C10: swap of two full holders calls the element type's own swap on the
\* two live values exactly once, constructs and destroys nothing in holder
\* storage, leaves both holders full and exchanges their values.
C10_SwapFullFull ==
  (IsSwap /\ Returned /\ WasFull(last.a) /\ WasFull(last.b)) =>
    /\ last.ledger = <<"swap_non_member", "swap_member">>
    /\ last.ctors = 0 /\ last.dtors = 0
    /\ IsFull(last.a) /\ IsFull(last.b)
    /\ hs[last.a].obj_ = last.pre[last.b].obj_
    /\ hs[last.b].obj_ = last.pre[last.a].obj_

\* C10 witness: two full holders with different values have just been
\* swapped.
C10_Witness ==
  /\ last.op = "swap" /\ Returned /\ last.a # last.b
  /\ WasFull(last.a) /\ WasFull(last.b)
  /\ last.pre[last.a].obj_ # last.pre[last.b].obj_
  /\ hs[last.a].obj_ = last.pre[last.b].obj_

\* C11: swap exchanges the has-value states in all four quadrants: after
\* a.swap(b) returns, a has a value iff b had one and b has a value iff a
\* had one; in the empty/empty quadrant no element operation is performed
\* and both holders stay empty.
C11_SwapExchangesFlags ==
  (IsSwap /\ Returned) =>
    /\ IsFull(last.a) = WasFull(last.b)
    /\ IsFull(last.b) = WasFull(last.a)
    /\ (~WasFull(last.a) /\ ~WasFull(last.b))
         => /\ last.ledger = <<>> /\ last.ctors = 0 /\ last.dtors = 0
            /\ hs = last.pre

\* C11 witness: the member swap has just exchanged an empty holder with a
\* full one.
C11_Witness ==
  /\ last.op = "swap" /\ Returned /\ last.a # last.b
  /\ ~WasFull(last.a) /\ WasFull(last.b)
  /\ IsFull(last.a) /\ ~IsFull(last.b)

\* C11 empty/empty quadrant: two empty holders have just been swapped.
C11_WitnessEmpty ==
  /\ last.op = "swap" /\ Returned /\ last.a # last.b
  /\ ~WasFull(last.a) /\ ~WasFull(last.b)
  /\ ~IsFull(last.a) /\ ~IsFull(last.b)

\* C12: the free swap(d1, d2) is equivalent to the member d1.swap(d2): from
\* the pre-state of every free swap, the member swap produces the same
\* ordered element operations, the same outcome and the same post-state of
\* both holders.
C12_FreeSwapIsMemberSwap ==
  last.op = "overload_swap" =>
    \E thr \in BOOLEAN :
      LET m == swap(Machine(last.pre), last.a, last.b, thr)
      IN  /\ m.hs = hs
          /\ m.ledger = last.ledger
          /\ m.exc = last.outcome
          /\ m.ctors = last.ctors /\ m.dtors = last.dtors

\* C12 witness: the free swap has just moved a value from a full holder to
\* an empty one.
C12_Witness ==
  /\ last.op = "overload_swap" /\ Returned /\ last.a # last.b
  /\ WasFull(last.a) /\ ~WasFull(last.b)
  /\ last.ledger = <<"move_constructor", "destructor">>
  /\ IsFull(last.b) /\ hs[last.b].obj_ = last.pre[last.a].obj_

\* C13: exception safety of construction into an empty holder: when init or
\* an assignment (from a raw value or from a full holder) into an empty
\* holder ends with T's constructor throwing, the exception reaches the
\* caller and the holder is empty afterwards (boolean test false, get()
\* null) and owes no destructor call.
C13_ThrowLeavesEmpty ==
  (/\ last.op \in {"init", "assign_value", "assign_holder"}
   /\ last.outcome = "T_exception"
   /\ ~WasFull(last.a)) =>
    /\ ~operator_bool(Machine(hs), last.a)
    /\ get(Machine(hs), last.a) = nullptr
    /\ hs[last.a].live = 0
    /\ last.ledger = <<>> /\ last.ctors = 0 /\ last.dtors = 0
    /\ hs = last.pre

\* C13 witness: an assignment from a full holder into an empty one has just
\* propagated the exception of T's constructor.
C13_Witness ==
  /\ last.op = "assign_holder" /\ last.outcome = "T_exception"
  /\ ~WasFull(last.a) /\ WasFull(last.b) /\ ~IsFull(last.a)

\* C13, the other two entry points: init and raw-value assignment.
C13_WitnessInit ==
  /\ last.op \in {"init", "assign_value"} /\ last.outcome = "T_exception"
  /\ ~WasFull(last.a) /\ ~IsFull(last.a)

\* C14: construction purity: default-constructing a holder performs zero
\* element operations (no default construction of T in particular) and
\* yields an empty holder: boolean test false, get() null.
C14_DefaultCtorPure ==
  last.op = "ctor_default" =>
    /\ Returned
    /\ last.ledger = <<>> /\ last.ctors = 0 /\ last.dtors = 0
    /\ Alive(last.a)
    /\ ~operator_bool(Machine(hs), last.a)
    /\ get(Machine(hs), last.a) = nullptr
    /\ hs[last.a].live = 0

\* C14 witness: a holder has just been default-constructed next to a full
\* one.
C14_Witness ==
  /\ last.op = "ctor_default" /\ Alive(last.a) /\ ~IsFull(last.a)
  /\ \E h \in Holders : h # last.a /\ Alive(h) /\ IsFull(h)

\* C15: construction from another holder that returns: the new holder has a
\* value iff the source had one at the call; a full source costs exactly one
\* element construction from the source's value (move-construction for a
\* movable source, copy-construction otherwise), an empty source costs no
\* element operation.
C15_CtorFromHolder ==
  (last.op = "ctor_holder" /\ Returned) =>
    /\ Alive(last.a)
    /\ IsFull(last.a) = WasFull(last.b)
    /\ IF WasFull(last.b)
       THEN /\ last.ledger = << IF last.kind = "move"
                                THEN "move_constructor"
                                ELSE "copy_constructor" >>
            /\ last.ctors = 1 /\ last.dtors = 0
            /\ hs[last.a].obj_ = last.pre[last.b].obj_
            /\ hs[last.a].live = 1
       ELSE /\ last.ledger = <<>> /\ last.ctors = 0 /\ last.dtors = 0
            /\ hs[last.a].live = 0

\* C15 witness: a holder has just been move-constructed from a full holder.
C15_Witness ==
  /\ last.op = "ctor_holder" /\ Returned /\ last.kind = "move"
  /\ WasFull(last.b) /\ IsFull(last.a)
  /\ last.ledger = <<"move_constructor">>

\* C15 empty source: a holder has just been copy-constructed from an empty
\* holder.
C15_WitnessEmpty ==
  /\ last.op = "ctor_holder" /\ Returned /\ last.kind = "copy"
  /\ ~WasFull(last.b) /\ Alive(last.a) /\ ~IsFull(last.a)

\* C16: construction from a raw value that returns yields a full holder and
\* performs exactly one element construction from the forwarded value and no
\* other element operation: move-construction for a non-const rvalue of T,
\* copy-construction for any other T, T(int) for an int.
C16_CtorFromValue ==
  (last.op = "ctor_value" /\ Returned) =>
    /\ Alive(last.a) /\ IsFull(last.a) /\ hs[last.a].live = 1
    /\ last.ctors = 1 /\ last.dtors = 0
    /\ last.ledger = << CASE last.kind = "move" -> "move_constructor"
                          [] last.kind = "copy" -> "copy_constructor"
                          [] last.kind = "int"  -> "constructor" >>
    /\ hs[last.a].obj_ = last.v

\* C16 witness: a holder has just been constructed from an rvalue helper
\* holding 1.
C16_Witness ==
  /\ last.op = "ctor_value" /\ Returned /\ last.kind = "move" /\ last.v = 1
  /\ IsFull(last.a) /\ hs[last.a].obj_ = 1

\* C17: destroying a holder performs exactly one element destructor call if
\* the holder is full and no element operation if it is empty, and never
\* throws.
C17_DtorOnce ==
  last.op = "dtor" =>
    /\ Returned
    /\ ~Alive(last.a)
    /\ ~last.deadDtor
    /\ last.ctors = 0
    /\ IF WasFull(last.a)
       THEN last.ledger = <<"destructor">> /\ last.dtors = 1
       ELSE last.ledger = <<>> /\ last.dtors = 0

\* C17 witness: a full holder has just been destroyed.
C17_Witness ==
  /\ last.op = "dtor" /\ WasFull(last.a) /\ last.ledger = <<"destructor">>

\* C17 empty case: an empty holder has just been destroyed.
C17_WitnessEmpty ==
  /\ last.op = "dtor" /\ last.pre[last.a].st = "alive" /\ ~WasFull(last.a)
  /\ last.ledger = <<>>

\* the operations that run a constructor, an assignment or a swap of T
RunsT ==
  {"ctor_holder", "ctor_value", "assign_holder", "assign_value", "init",
   "swap", "overload_swap"}

C18_Witness ==
  /\ last.op = "assign_holder" /\ Returned
  /\ WasFull(last.a) /\ ~WasFull(last.b) /\ ~IsFull(last.a)

C18_WitnessInit ==
  last.op = "init" /\ last.outcome = "logic_error" /\ WasFull(last.a)

\* C19 (as claimed): dereference, in its non-const and in its const
\* overload alike: on a full holder it returns a reference to the holder's
\* own live value; on an empty holder it signals std::logic_error, performs
\* no element operation and leaves the holder empty.
C19_Dereference ==
  last.op \in {"deref", "deref_const"} =>
    IF WasFull(last.a)
    THEN /\ Returned
         /\ last.ret = hs[last.a].obj_
         /\ IsFull(last.a)
    ELSE /\ last.outcome = "logic_error"
         /\ last.ledger = <<>>
         /\ ~IsFull(last.a)
         /\ hs = last.pre

\* C20: operator-> returns exactly what get() returns in the same state: a
\* pointer to the live value when the holder is full, the null pointer when
\* it is empty, and it signals no error in either state.
C20_ArrowIsGet ==
  last.op = "arrow" =>
    /\ Returned
    /\ last.ret = get(Machine(last.pre), last.a)
    /\ WasFull(last.a)  => (last.ret = last.a /\ last.ret # nullptr)
    /\ ~WasFull(last.a) => last.ret = nullptr

\* C20 witness: operator-> has just returned the null pointer for an empty
\* holder.
C20_Witness ==
  /\ last.op = "arrow" /\ ~WasFull(last.a) /\ last.ret = nullptr

\* C20 full case: operator-> has just returned the address of the value.
C20_WitnessFull ==
  /\ last.op = "arrow" /\ WasFull(last.a) /\ last.ret = last.a

\* C21 (as claimed): for every combination of T's no-throw declarations,
\* the member swap and the free swap are declared noexcept if and only if
\* T's move construction and T's swap are both noexcept; so no swap that is
\* declared noexcept ever meets a throwing operation of T on its path
\* (which would end the program in std::terminate).
C21_SwapNoexcept ==
  IsSwap =>
    /\ swap_noexcept(T_traits) <=> (T_traits.move_ctor /\ T_traits.swap)
    /\ overload_swap_noexcept(T_traits) <=>
          (T_traits.move_ctor /\ T_traits.swap)
    /\ ~Terminated

\* C22 (as claimed): no holder operation ever invokes T's default
\* constructor, init() with any argument list included.
C22_NeverDefaultCtor ==
  \A i \in DOMAIN last.ledger : last.ledger[i] # "default_constructor"

\* C22 (amended): T's default constructor runs in exactly one situation:
\* init() called with an empty argument list on an empty holder, which
\* value-initialises T (one default construction, nothing else).  No
\* construction, assignment, swap, access or destruction of a holder, and no
\* init() with arguments, ever invokes it.
C22_DefaultCtorOnlyByInit ==
  /\ (\E i \in DOMAIN last.ledger : last.ledger[i] = "default_constructor")
       => /\ last.op = "init" /\ last.kind = "none"
          /\ ~WasFull(last.a)
          /\ last.ledger = <<"default_constructor">>
  /\ (last.op = "init" /\ last.kind = "none" /\ Returned)
       => last.ledger = <<"default_constructor">>

\* C22 witness: init() without arguments has just default-constructed the
\* value of an empty holder.
C22_Witness ==
  /\ last.op = "init" /\ last.kind = "none" /\ Returned
  /\ ~WasFull(last.a) /\ IsFull(last.a)
  /\ last.ledger = <<"default_constructor">>

\* C22, the other operations: a holder has just been constructed from an
\* empty holder without any element operation.
C22_WitnessNoDefault ==
  /\ last.op = "ctor_holder" /\ Returned /\ ~WasFull(last.b)
  /\ last.ledger = <<>>

\* C23 (as claimed): the storage of an empty holder is never read: no
\* operation gives the storage of a holder whose flag is false to T as the
\* source of a construction, an assignment or a swap, and no accessor
\* hands it to the caller.
C23_EmptyStorageNeverRead ==
  /\ ~last.readsDead
  /\ (last.op = "deref" /\ Returned) => last.ret # Indet
  /\ (last.op \in {"get", "arrow"} /\ ~WasFull(last.a))
       => last.ret = nullptr

\* the step that has just been taken is neither an assignment to holder h,
\* nor a swap involving h, nor the destruction of h
KeepsValue(h) ==
  /\ ~(last'.op \in {"assign_holder", "assign_value"} /\ last'.a = h)
  /\ ~(last'.op \in {"swap", "overload_swap"} /\ h \in {last'.a, last'.b})
  /\ ~(last'.op = "dtor" /\ last'.a = h)

\* C24: one-time initialisation.  Whatever the history of a holder, an
\* init() call signals std::logic_error exactly when the holder is full at
\* the moment of the call, and on an empty holder it runs T's constructor
\* and, unless that constructor throws, succeeds and leaves the holder full.
\* A full holder stays full through every operation that is not an
\* assignment to it, a swap involving it or its destruction; so without
\* these at most one init() succeeds and every later init() is refused, and
\* init() succeeds again once an assignment or a swap has emptied the holder.
C24_OneTimeInit ==
  [][ /\ last'.op = "init" =>
           /\ (last'.outcome = "logic_error") <=> hs[last'.a].is_init_
           /\ ~hs[last'.a].is_init_ =>
                 /\ last'.outcome \in {"none", "T_exception"}
                 /\ hs'[last'.a].is_init_ = (last'.outcome = "none")
      /\ \A h \in Holders :
           (hs[h].is_init_ /\ KeepsValue(h)) => hs'[h].is_init_
    ]_vars

\* C24 witness: init() has just been refused on a full holder, which still
\* holds its value.
C24_Witness ==
  /\ last.op = "init" /\ last.outcome = "logic_error"
  /\ WasFull(last.a) /\ IsFull(last.a) /\ hs = last.pre

\* C24, initialising again: init() has just succeeded in a run in which a
\* value had already been constructed and destroyed.
C24_WitnessAgain ==
  /\ last.op = "init" /\ Returned /\ ~WasFull(last.a) /\ IsFull(last.a)
  /\ nCtor >= 2 /\ nDtor >= 1

C25_WitnessBool ==
  /\ last.op = "bool" /\ WasFull(last.a) /\ last.ret = TRUE

\* C26: exception safety of swap in the full/empty quadrants: when T's
\* move construction into the empty holder throws, the exception
\* propagates, nothing is constructed or destroyed, and both holders keep
\* their state: the full one is still full and owns its object, the empty
\* one is still empty.
C26_SwapThrowKeepsBoth ==
  (IsSwap /\ last.outcome # "none" /\ WasFull(last.a) # WasFull(last.b))
  => /\ last.outcome = "T_exception"
     /\ last.ledger = <<>>
     /\ last.ctors = 0 /\ last.dtors = 0
     /\ \A h \in {last.a, last.b} :
          /\ IsFull(h) = WasFull(h)
          /\ hs[h].live = IF WasFull(h) THEN 1 ELSE 0

\* C26 witness: a.swap(b) with a full and b empty has just propagated the
\* exception of T's move constructor.
C26_Witness ==
  /\ last.op = "swap" /\ last.outcome = "T_exception"
  /\ WasFull(last.a) /\ ~WasFull(last.b)
  /\ IsFull(last.a) /\ ~IsFull(last.b)

\* C26, the other quadrant: the same with a empty and b full.
C26_WitnessReversed ==
  /\ last.op = "swap" /\ last.outcome = "T_exception"
  /\ ~WasFull(last.a) /\ WasFull(last.b)
  /\ ~IsFull(last.a) /\ IsFull(last.b)

\* C27: exception during in-place assignment: when T's assignment operator
\* throws while a full holder is assigned a raw value or the value of a full
\* holder, the exception propagates, the holder performs no construction
\* and no destruction, and the target is still full with its one live
\* object.
C27_AssignThrowKeepsTarget ==
  (/\ last.op \in {"assign_value", "assign_holder"}
   /\ last.outcome # "none"
   /\ WasFull(last.a)
   /\ last.op = "assign_holder" => WasFull(last.b))
  => /\ last.outcome = "T_exception"
     /\ last.ledger = <<>>
     /\ last.ctors = 0 /\ last.dtors = 0
     /\ IsFull(last.a) /\ hs[last.a].live = 1
     /\ \A h \in Holders : hs[h].live = last.pre[h].live

\* C27 witness: the assignment of a full holder to another full holder has
\* just propagated the exception of T's assignment operator.
C27_Witness ==
  /\ last.op = "assign_holder" /\ last.outcome = "T_exception"
  /\ last.a # last.b /\ WasFull(last.a) /\ WasFull(last.b)
  /\ IsFull(last.a) /\ hs[last.a].live = 1

\* C27, raw value: the same for the assignment of a raw value.
C27_WitnessValue ==
  /\ last.op = "assign_value" /\ last.outcome = "T_exception"
  /\ WasFull(last.a) /\ IsFull(last.a) /\ hs[last.a].live = 1

\* C28: self-assignment is well defined.  A full holder assigned to itself,
\* by copy or by move, stays full and performs exactly one element
\* assignment of its own value onto itself, with no construction and no
\* destruction; an empty holder assigned to itself stays empty with no
\* element operation.  A full holder assigned its own current value as a
\* raw value likewise stays full after one in-place assignment.
C28_SelfAssignment ==
  /\ (last.op = "assign_holder" /\ last.a = last.b /\ Returned)
       => IF WasFull(last.a)
          THEN /\ IsFull(last.a) /\ hs[last.a].live = 1
               /\ last.ledger = <<assign_of(last.kind)>>
               /\ last.ctors = 0 /\ last.dtors = 0
               /\ hs[last.a].obj_ = last.pre[last.a].obj_
          ELSE /\ ~IsFull(last.a)
               /\ last.ledger = <<>>
               /\ hs = last.pre
  /\ (/\ last.op = "assign_value" /\ Returned /\ WasFull(last.a)
      /\ last.v = last.pre[last.a].obj_)
       => /\ IsFull(last.a) /\ hs[last.a].live = 1
          /\ last.ledger = <<assign_of(last.kind)>>
          /\ last.ctors = 0 /\ last.dtors = 0
          /\ hs[last.a].obj_ = last.v

\* C28 witness: a full holder has just been move-assigned to itself.
C28_Witness ==
  /\ last.op = "assign_holder" /\ last.a = last.b /\ Returned
  /\ last.kind = "move" /\ WasFull(last.a) /\ IsFull(last.a)
  /\ last.ledger = <<"move_assignment">>

\* C28, the other cases: an empty holder has just been assigned to itself;
\* a full holder has just been assigned its own value as a raw value.
C28_WitnessEmpty ==
  /\ last.op = "assign_holder" /\ last.a = last.b /\ Returned
  /\ last.pre[last.a].st = "alive" /\ ~WasFull(last.a) /\ ~IsFull(last.a)

C28_WitnessValue ==
  /\ last.op = "assign_value" /\ Returned /\ WasFull(last.a)
  /\ last.v = last.pre[last.a].obj_ /\ last.ledger = <<"copy_assignment">>

\* C29: constructing a holder from a holder and assigning a holder from a
\* holder, by copy or by move, whether they return or throw, never change
\* the source's has-value state: a full source is still full and still owns
\* its one (possibly moved-from) object, an empty source is still empty;
\* a copy also leaves the source's value unchanged.
C29_SourceKeepsState ==
  last.op \in {"ctor_holder", "assign_holder"} =>
    /\ IsFull(last.b) = WasFull(last.b)
    /\ hs[last.b].live = last.pre[last.b].live
    /\ hs[last.b].st = "alive"
    /\ last.kind = "copy" => hs[last.b].obj_ = last.pre[last.b].obj_

\* C29 witness: a holder has just been move-assigned from another, full
\* holder, which is still full.
C29_Witness ==
  /\ last.op = "assign_holder" /\ last.kind = "move" /\ Returned
  /\ last.a # last.b /\ WasFull(last.b)
  /\ IsFull(last.b) /\ hs[last.b].live = 1

\* C29, construction: a holder has just been move-constructed from a full
\* holder; a holder has just been copy-constructed from an empty one.
C29_WitnessCtor ==
  /\ last.op = "ctor_holder" /\ last.kind = "move" /\ Returned
  /\ WasFull(last.b) /\ IsFull(last.b) /\ IsFull(last.a)

C29_WitnessEmpty ==
  /\ last.op = "ctor_holder" /\ last.kind = "copy" /\ Returned
  /\ ~WasFull(last.b) /\ ~IsFull(last.b) /\ ~IsFull(last.a)

\* C30: swap is an involution: when a.swap(b) returns and is at once
\* performed again and returns, both holders have the has-value flags and
\* the values they had before the first swap, whatever the quadrant; in the
\* full/empty quadrants the two swaps together cost two move constructions
\* and two destructions, in the empty/empty quadrant nothing.
C30_SwapInvolution ==
  [][ (/\ last.op = "swap" /\ last.outcome = "none"
       /\ last'.op = "swap" /\ last'.outcome = "none"
       /\ last'.a = last.a /\ last'.b = last.b)
      => /\ hs' = last.pre
         /\ WasFull(last.a) # WasFull(last.b) =>
              /\ last.ledger \o last'.ledger =
                   <<"move_constructor", "destructor",
                     "move_constructor", "destructor">>
              /\ last.ctors + last'.ctors = 2
              /\ last.dtors + last'.dtors = 2
         /\ (~WasFull(last.a) /\ ~WasFull(last.b)) =>
              last.ledger \o last'.ledger = <<>>
    ]_vars

\* C30 witness: a swap in a full/empty quadrant has just returned in a run
\* that has performed one value construction, two move constructions and
\* two destructions: the second of two swaps in a row.
C30_Witness ==
  /\ last.op = "swap" /\ Returned /\ last.a # last.b
  /\ WasFull(last.a) # WasFull(last.b)
  /\ nCtor = 3 /\ nDtor = 2
  /\ \E h \in {last.a, last.b} : IsFull(h)

\* C30, two values: two full holders with different values have just been
\* swapped.
C30_WitnessFull ==
  /\ last.op = "swap" /\ Returned /\ last.a # last.b
  /\ WasFull(last.a) /\ WasFull(last.b)
  /\ hs[last.a].obj_ # hs[last.b].obj_
  /\ hs[last.a].obj_ = last.pre[last.b].obj_

====
